---------------------------- MODULE Spec2Model ----------------------------
(***************************************************************************)
(* A model of assets/interactive-enhancements.js: the debounce utility,    *)
(* the DOMContentLoaded initialisation of the nine enhancement modules,    *)
(* and the event listeners and timer callbacks they register.              *)
(*                                                                         *)
(* The browser is modelled as a single event loop: one action is one       *)
(* dispatched event (all its listeners, in registration order) or one      *)
(* timer callback.  Time is a discrete clock; a timer armed by setTimeout  *)
(* is delivered when its delay has elapsed, before the clock advances and  *)
(* before any other event of that instant.                                 *)
(***************************************************************************)
EXTENDS Integers, FiniteSets, Sequences, TLC

VARIABLES
    now,          \* the clock
    timers,       \* pending setTimeout timers: records [id, due, cb, arg, call]
    nextId,       \* the id the next setTimeout returns
    timeout,      \* the closure variable `timeout` of every debounce wrapper
    calls,        \* per wrapper: how many times the wrapper was called
    invocations,  \* per wrapper: how many times func was invoked
    lastCall,     \* per wrapper: time and arguments of the latest call
    lastInvoke,   \* per wrapper: what held when func was last invoked
    served,       \* per wrapper: the calls whose timer invoked func, in order
    bursts,       \* per wrapper: bursts of calls started so far
    page,         \* the document as served: its elements and what the script reads of it
    pc,           \* where the DOMContentLoaded handler is
    initLog,      \* the modules whose init() was invoked, in order
    elements,     \* the elements in the document (the page's and the created ones)
    listeners,    \* the registered event listeners, in registration order
    observed,     \* the (observer, element) pairs given to IntersectionObserver.observe
    dom,          \* per element: the classes and inline styles the script changes
    form,         \* the form: the field's value and messages, the submit button
    win,          \* window.pageYOffset and window.innerWidth
    errors,       \* the listeners and callbacks that raised an uncaught error
    ran,          \* the functions of the script that have been invoked
    lastEvent     \* the event or timer callback of the latest step

clockVars == <<now, timers, nextId, timeout>>
debVars == <<calls, invocations, lastCall, lastInvoke, served, bursts>>
pageVars == <<page, pc, initLog, elements, listeners, observed, dom, form, win, errors, ran, lastEvent>>
vars == <<clockVars, debVars, pageVars>>

-----------------------------------------------------------------------------
(* Bounds of the model *)

MaxTime == 6
MaxCalls == 4
MaxArg == 2
MaxEvents == 3

(* The two wrappers of the debounce specification and their `wait` *)
WaitF == 2
WaitG == 3

Args == 1..MaxArg

(* Constants of the program *)
MobileBreakpoint == 1024
StickyThreshold == 200
ToTopThreshold == 300
MenuResizeWait == 250
StickyWait == 10
InputWait == 300
TabResizeWait == 250
ToTopWait == 15
ParallaxWait == 12
ProgressWait == 10
OnclickResetDelay == 60
LanguageResetDelay == 150
TabFadeDelay == 50
RippleDelay == 250
SendDelay == 2000
SuccessDelay == 3000

GenericWrappers == {"f", "g"}
\* The debounced listeners of the modules.
PageWrappers ==
    {"menuResize", "stickyScroll", "fieldInput", "tabIndicatorResize",
     "toTopScroll", "parallaxScroll", "progressScroll"}

Wrappers == GenericWrappers \cup PageWrappers

\* The `wait` each wrapper was made with.
Wait(w) ==
    CASE w = "f" -> WaitF
      [] w = "g" -> WaitG
      [] w = "menuResize" -> MenuResizeWait
      [] w = "stickyScroll" -> StickyWait
      [] w = "fieldInput" -> InputWait
      [] w = "tabIndicatorResize" -> TabResizeWait
      [] w = "toTopScroll" -> ToTopWait
      [] w = "parallaxScroll" -> ParallaxWait
      [] w = "progressScroll" -> ProgressWait

-----------------------------------------------------------------------------
(* window.setTimeout / window.clearTimeout *)

\* clearTimeout(id): the timer with that id, if still pending, is cancelled;
\* an undefined, fired or cancelled id is ignored.
ClearTimeout(ts, id) == {t \in ts : t.id # id}

\* setTimeout(cb, delay): a new pending timer with a fresh id.
SetTimeout(ts, id, cb, delay, arg, call) ==
    ts \cup {[id |-> id, due |-> now + delay, cb |-> cb, arg |-> arg, call |-> call]}

\* Timers whose delay has elapsed.
DueTimers == {t \in timers : t.due <= now}

\* The timers a wrapper armed that are still pending.
PendingOf(w) == {t \in timers : t.cb = w}

-----------------------------------------------------------------------------
(* Utils.debounce *)

\* The part of the state a listener or callback reads and writes, as a record W;
\* here the part Utils.debounce uses.
ClockWorld == [timers |-> timers, nextId |-> nextId, timeout |-> timeout]

\* A faulty debounce that arms a new timer without clearing the previous one.
ExecutedFunctionNoClear(W, w, wait, arg, call) ==
    [W EXCEPT !.timers = SetTimeout(@, W.nextId, w, wait, arg, call),
              !.timeout[w] = W.nextId,
              !.nextId = @ + 1]

\* A faulty debounce that invokes func on the leading edge: the timer is due at once.
ExecutedFunctionLeading(W, w, wait, arg, call) ==
    [W EXCEPT !.timers = SetTimeout(ClearTimeout(@, W.timeout[w]), W.nextId, w, 0, arg, call),
              !.timeout[w] = W.nextId,
              !.nextId = @ + 1]

\* A faulty debounce that keeps the first call's timer and drops later calls.
ExecutedFunctionKeepFirst(W, w, wait, arg, call) ==
    IF \E t \in W.timers : t.cb = w THEN W
    ELSE [W EXCEPT !.timers = SetTimeout(@, W.nextId, w, wait, arg, call),
                   !.timeout[w] = W.nextId,
                   !.nextId = @ + 1]

\* A faulty debounce whose wrappers share one `timeout` variable: a call
\* clears the timer armed by the latest call of any wrapper.
ExecutedFunctionShared(W, w, wait, arg, call) ==
    [W EXCEPT !.timers = SetTimeout({t \in @ : \A v \in Wrappers : t.id # W.timeout[v]},
                                    W.nextId, w, wait, arg, call),
              !.timeout = [v \in Wrappers |-> W.nextId],
              !.nextId = @ + 1]

\* executedFunction(...args): clearTimeout(timeout); timeout = setTimeout(later, wait).
ExecutedFunction(W, w, wait, arg, call) ==
    [W EXCEPT !.timers = SetTimeout(ClearTimeout(@, W.timeout[w]), W.nextId, w, wait, arg, call),
              !.timeout[w] = W.nextId,
              !.nextId = @ + 1]

\* later(): the delivered timer t is no longer pending; clearTimeout(timeout),
\* and then func(...args) is invoked.
Later(W, t) == [W EXCEPT !.timers = ClearTimeout(@ \ {t}, W.timeout[t.cb])]

-----------------------------------------------------------------------------
(* The debounce specification: two wrappers returned by Utils.debounce, called *)
(* with arbitrary arguments at arbitrary times.                               *)

NoCall == [at |-> -1, arg |-> 0]
NoInvoke == [at |-> -1, arg |-> 0, call |-> 0, calls |-> 0, callAt |-> -1, callArg |-> 0]

InitClock ==
    /\ now = 0
    /\ timers = {}
    /\ nextId = 1
    /\ timeout = [w \in Wrappers |-> 0]

\* The debounce specification has no document.
NoPage ==
    /\ page = <<>>
    /\ pc = "none"
    /\ initLog = <<>>
    /\ elements = {}
    /\ listeners = <<>>
    /\ observed = {}
    /\ dom = <<>>
    /\ form = <<>>
    /\ win = <<>>
    /\ errors = {}
    /\ ran = {}
    /\ lastEvent = <<>>

InitDebounce ==
    /\ InitClock
    /\ NoPage
    /\ calls = [w \in GenericWrappers |-> 0]
    /\ invocations = [w \in GenericWrappers |-> 0]
    /\ lastCall = [w \in GenericWrappers |-> NoCall]
    /\ lastInvoke = [w \in GenericWrappers |-> NoInvoke]
    /\ served = [w \in GenericWrappers |-> <<>>]
    /\ bursts = [w \in GenericWrappers |-> 0]

\* A call wrapper(arg) at the current instant.
DebounceCall(w, arg) ==
    /\ DueTimers = {}
    /\ calls["f"] + calls["g"] < MaxCalls
    /\ now + Wait(w) <= MaxTime
    /\ LET W == ExecutedFunction(ClockWorld, w, Wait(w), arg, calls[w] + 1)
       IN  /\ timers' = W.timers
           /\ timeout' = W.timeout
           /\ nextId' = W.nextId
    /\ calls' = [calls EXCEPT ![w] = @ + 1]
    /\ lastCall' = [lastCall EXCEPT ![w] = [at |-> now, arg |-> arg]]
    /\ bursts' = [bursts EXCEPT ![w] =
                    IF calls[w] = 0 \/ now - lastCall[w].at >= Wait(w) THEN @ + 1 ELSE @]
    /\ UNCHANGED <<now, invocations, lastInvoke, served, pageVars>>

\* A timer armed by a wrapper is delivered: later() runs and invokes func.
DebounceFire ==
    \E t \in DueTimers :
        /\ t.cb \in GenericWrappers
        /\ timers' = Later(ClockWorld, t).timers
        /\ invocations' = [invocations EXCEPT ![t.cb] = @ + 1]
        /\ lastInvoke' = [lastInvoke EXCEPT ![t.cb] =
                            [at |-> now, arg |-> t.arg, call |-> t.call,
                             calls |-> calls[t.cb], callAt |-> lastCall[t.cb].at,
                             callArg |-> lastCall[t.cb].arg]]
        /\ served' = [served EXCEPT ![t.cb] = Append(@, t.call)]
        /\ UNCHANGED <<now, nextId, timeout, calls, lastCall, bursts, pageVars>>

\* One unit of time passes; no timer is left behind.
Tick ==
    /\ DueTimers = {}
    /\ now < MaxTime
    /\ now' = now + 1
    /\ UNCHANGED <<timers, nextId, timeout, debVars, pageVars>>

NextDebounce ==
    \/ \E w \in GenericWrappers, a \in Args : DebounceCall(w, a)
    \/ DebounceFire
    \/ Tick

SpecDebounce == InitDebounce /\ [][NextDebounce]_vars

\* The event loop delivers due timers and time passes.
SpecDebounceFair ==
    InitDebounce /\ [][NextDebounce]_vars /\ WF_vars(DebounceFire) /\ WF_vars(Tick)

-----------------------------------------------------------------------------
(* Claims about Utils.debounce *)

Range(seq) == {seq[i] : i \in DOMAIN seq}

\* C1: for every wrapper returned by Utils.debounce, after any sequence of calls
\* and timer firings, at most one timer armed by that wrapper is pending, and it
\* is the one the closure variable `timeout` names: each call clears the timer
\* armed before it.
C1_AtMostOnePendingTimer ==
    \A w \in GenericWrappers :
        /\ Cardinality(PendingOf(w)) <= 1
        /\ \A t \in PendingOf(w) : t.id = timeout[w]

\* A second call arrived while the timer of the first was pending.
C1_Witness ==
    \E w \in GenericWrappers :
        /\ calls[w] >= 2
        /\ invocations[w] = 0
        /\ PendingOf(w) # {}

\* func was invoked no sooner than `wait` after the latest call of its wrapper.
InvokedAfterWait ==
    \A w \in GenericWrappers :
        invocations[w] > 0 => lastInvoke[w].at - lastInvoke[w].callAt >= Wait(w)

\* A step that calls a wrapper invokes no func.
CallIsNotInvoke ==
    \A w \in GenericWrappers :
        calls'[w] # calls[w] => invocations' = invocations

\* A step that invokes func happens `wait` or more after the latest call.
InvokeOnlyWhenQuiet ==
    \A w \in GenericWrappers :
        invocations'[w] # invocations[w] => now - lastCall[w].at >= Wait(w)

\* C2: Utils.debounce is trailing-edge with a fixed wait: a call to the wrapper
\* never invokes func synchronously, and func is invoked only when `wait` time
\* units have elapsed since the most recent call to the wrapper; so while calls
\* arrive less than `wait` apart func is not invoked.
C2_TrailingEdge ==
    /\ []InvokedAfterWait
    /\ [][CallIsNotInvoke /\ InvokeOnlyWhenQuiet]_vars

\* func ran for a burst of two calls: the first call's timer was superseded.
C2_Witness ==
    \E w \in GenericWrappers :
        /\ invocations[w] = 1
        /\ lastInvoke[w].call = 2
        /\ lastInvoke[w].at - lastInvoke[w].callAt = Wait(w)

\* What holds of the invocations of func in every state.
OncePerBurst ==
    \A w \in GenericWrappers :
        /\ invocations[w] <= calls[w]
        /\ invocations[w] + Cardinality(PendingOf(w)) = bursts[w]
        /\ \A i, j \in DOMAIN served[w] : i # j => served[w][i] # served[w][j]
        /\ invocations[w] > 0 =>
              /\ lastInvoke[w].call = lastInvoke[w].calls
              /\ lastInvoke[w].arg = lastInvoke[w].callArg

\* The k-th call, when no call follows it, leads to an invocation of func for it.
BurstServed ==
    \A w \in GenericWrappers : \A k \in 1..MaxCalls :
        (calls[w] = k /\ PendingOf(w) # {}) ~> (calls[w] > k \/ k \in Range(served[w]))

\* C3: every burst of calls to a debounced wrapper that is followed by no call
\* for `wait` time units leads to exactly one invocation of func, with the
\* arguments of the last call of the burst; func is never invoked more often
\* than the wrapper was called.
C3_OncePerBurst == []OncePerBurst /\ BurstServed

\* A burst of two calls with different arguments was served once, with the
\* arguments of the second call.
C3_Witness ==
    \E w \in GenericWrappers :
        /\ calls[w] = 2
        /\ bursts[w] = 1
        /\ invocations[w] = 1
        /\ lastInvoke[w].arg = 2
        /\ PendingOf(w) = {}

-----------------------------------------------------------------------------
(* The document.  One element stands for each kind of element the script     *)
(* selects; Traits gives the selectors an element of that kind matches.      *)

PageKinds ==
    {"navbar", "navLink", "menuButton", "menu", "menuLink", "navbarEnd",
     "text", "section", "anchor", "card", "tabButton1", "tabButton2",
     "tabContent1", "tabContent2", "form", "field", "submitButton",
     "ctaButton", "iconButton", "image", "footer"}

\* Elements the script creates: the language switcher and its button, the
\* scroll-to-top button, the scroll progress bar.
CreatedKinds == {"languageSwitcher", "languageButton", "scrollToTopBtn", "progressBar"}

AllKinds == PageKinds \cup CreatedKinds

\* Document order; appended elements come last, the language switcher is
\* inserted into .navbar-end.
KindOrder ==
    <<"navbar", "navLink", "menuButton", "menu", "menuLink", "navbarEnd",
      "languageSwitcher", "languageButton", "text", "section", "anchor", "card",
      "tabButton1", "tabButton2", "tabContent1", "tabContent2", "form", "field",
      "submitButton", "ctaButton", "iconButton", "image", "footer",
      "scrollToTopBtn", "progressBar">>

Traits(k) ==
    CASE k = "navbar" -> {".navbar"}
      [] k = "navLink" -> {"[data-nav]", "a"}
      [] k = "menuButton" -> {".btn-ghost.lg:hidden", ".btn", "button", "text"}
      [] k = "menu" -> {"#mobileMenu"}
      [] k = "menuLink" -> {"a"}
      [] k = "navbarEnd" -> {".navbar-end"}
      [] k = "languageSwitcher" -> {".language-switcher"}
      [] k = "languageButton" -> {".btn", "button", "[onclick]", ".iconify", "data-icon", "text"}
      [] k = "text" -> {"h1"}
      [] k = "section" -> {".bg-base-200"}
      [] k = "anchor" -> {"a[href^=#]", "a"}
      [] k = "card" -> {".card", "[onclick]"}
      [] k = "tabButton1" -> {".tab-button", "button", "text"}
      [] k = "tabButton2" -> {".tab-button", "button", "text"}
      [] k = "tabContent1" -> {".tab-content"}
      [] k = "tabContent2" -> {".tab-content"}
      [] k = "form" -> {"form"}
      [] k = "field" -> {"input", ".form-control input", "labelled"}
      [] k = "submitButton" -> {"button[type=submit]", "button", ".btn", ".btn-primary", "text"}
      [] k = "ctaButton" -> {".cta-button", ".btn", "button", "text"}
      [] k = "iconButton" -> {"button", ".iconify"}
      [] k = "image" -> {"img[data-src]", ".zoomable", ".gallery-image", "img[data-preload]"}
      [] k = "footer" -> {"footer"}
      [] k = "scrollToTopBtn" -> {".btn", ".btn-primary", "button", ".iconify", "data-icon"}
      [] k = "progressBar" -> {".scroll-progress-bar"}

\* document.querySelectorAll(sels): the elements matching one of the selectors,
\* in document order.
QSA(els, sels) ==
    SelectSeq(KindOrder, LAMBDA k : k \in els /\ Traits(k) \cap sels # {})

\* document.querySelector(sels): the first match, or null.
QS(els, sels) == IF QSA(els, sels) = <<>> THEN "null" ELSE Head(QSA(els, sels))

CardSelectors == {".irrigation-card", ".product-image-card", ".card"}
SectionSelectors == {".bg-base-200", ".bg-base-100"}
TextSelectors == {"h1", "h2", "h3", "p"}
FocusableSelectors == {"button", "a", "input", "textarea", "select"}

\* addEventListener for every element of ts, the listeners of `what` in order;
\* `what` is a sequence of <<event type, listener>>.
RECURSIVE ForEach(_, _)
ForEach(ts, what) ==
    IF ts = <<>> THEN <<>>
    ELSE [i \in 1..Len(what) |->
            [target |-> Head(ts), type |-> what[i][1], fn |-> what[i][2]]]
         \o ForEach(Tail(ts), what)

\* observer.observe(element) for every element of ts.
Observe(obs, name, ts) == obs \cup {<<name, ts[i]>> : i \in DOMAIN ts}

\* An element the script has not styled: no class it toggles, no inline style.
Unstyled == [classes |-> {}, opacity |-> "", transform |-> "", background |-> ""]

\* element.style.opacity = op and element.style.transform = tr for every element of ts.
SetStyle(d, ts, op, tr) ==
    [k \in DOMAIN d |->
        IF \E i \in DOMAIN ts : ts[i] = k
        THEN [d[k] EXCEPT !.opacity = op, !.transform = tr]
        ELSE d[k]]

\* element.style.transform = tr for every element of ts.
SetTransform(d, ts, tr) ==
    [k \in DOMAIN d |->
        IF \E i \in DOMAIN ts : ts[i] = k THEN [d[k] EXCEPT !.transform = tr] ELSE d[k]]

-----------------------------------------------------------------------------
(* The setup functions of the nine modules.  Each maps the state S of the     *)
(* DOMContentLoaded handler (the elements, the listeners and observations     *)
(* registered so far, the styles, and whether an error was raised) to the     *)
(* state after it.                                                            *)

Hover(enter, leave) == <<<<"mouseenter", enter>>, <<"mouseleave", leave>>>>

\* Nothing is registered once the handler has raised.
AddListeners(S, new) == IF S.ok THEN [S EXCEPT !.ls = @ \o new] ELSE S

\* NavigationEnhancement
SetupActiveNavigation(S) ==
    AddListeners(S, ForEach(QSA(S.els, {"[data-nav]"}), Hover("navLinkEnter", "navLinkLeave")))

\* A faulty setupMobileMenu without the null check of its two elements.
SetupMobileMenuNoNullCheck(S) ==
    LET mobileMenuButton == QS(S.els, {".btn-ghost.lg:hidden"})
        mobileMenu == QS(S.els, {"#mobileMenu"})
    IN  IF mobileMenuButton = "null" THEN [S EXCEPT !.ok = FALSE]
        ELSE AddListeners(S,
                <<[target |-> mobileMenuButton, type |-> "click", fn |-> "menuToggle"],
                  [target |-> "document", type |-> "click", fn |-> "menuClickOutside"],
                  [target |-> "window", type |-> "resize", fn |-> "menuResize"]>>)

SetupMobileMenu(S) ==
    LET mobileMenuButton == QS(S.els, {".btn-ghost.lg:hidden"})
        mobileMenu == QS(S.els, {"#mobileMenu"})
    IN  IF mobileMenuButton # "null" /\ mobileMenu # "null"
        THEN AddListeners(S,
                <<[target |-> mobileMenuButton, type |-> "click", fn |-> "menuToggle"],
                  [target |-> "document", type |-> "click", fn |-> "menuClickOutside"],
                  [target |-> "window", type |-> "resize", fn |-> "menuResize"]>>)
        ELSE S

SetupSmoothScrolling(S) ==
    AddListeners(S, ForEach(QSA(S.els, {"a[href^=#]"}), <<<<"click", "anchorClick">>>>))

SetupStickyNavigation(S) ==
    IF QS(S.els, {".navbar"}) = "null" THEN S
    ELSE AddListeners(S, <<[target |-> "window", type |-> "scroll", fn |-> "stickyScroll"]>>)

SetupLanguageSwitcher(S) ==
    IF QS(S.els, {".navbar-end"}) = "null" THEN S
    ELSE IF QS(S.els, {".language-switcher"}) # "null" THEN S
    ELSE AddListeners([S EXCEPT !.els = @ \cup {"languageSwitcher", "languageButton"}],
            <<[target |-> "languageButton", type |-> "click", fn |-> "toggleLanguage"]>>)

NavigationEnhancementInit(S) ==
    SetupLanguageSwitcher(SetupStickyNavigation(SetupSmoothScrolling(
        SetupMobileMenu(SetupActiveNavigation(S)))))

\* FormEnhancement
SetupFormValidation(S) ==
    LET forms == QSA(S.els, {"form"})
        inputs == IF forms = <<>> THEN <<>> ELSE QSA(S.els, {"input", "textarea", "select"})
    IN  AddListeners(S,
            ForEach(inputs, <<<<"blur", "fieldBlur">>, <<"input", "fieldInput">>>>)
            \o ForEach(forms, <<<<"submit", "formSubmitValidate">>>>))

SetupFormSubmission(S) ==
    AddListeners(S, ForEach(QSA(S.els, {"form"}), <<<<"submit", "formSubmitSend">>>>))

SetupInputEnhancements(S) ==
    LET inputs == QSA(S.els, {".form-control input", ".form-control textarea"})
        labelled == SelectSeq(inputs, LAMBDA k : "labelled" \in Traits(k))
    IN  AddListeners(S, ForEach(labelled, <<<<"focus", "labelFocus">>, <<"blur", "labelBlur">>>>))

FormEnhancementInit(S) ==
    SetupInputEnhancements(SetupFormSubmission(SetupFormValidation(S)))

\* CardEnhancement
SetupCardHoverEffects(S) ==
    AddListeners(S, ForEach(QSA(S.els, CardSelectors), Hover("cardEnter", "cardLeave")))

SetupCardClickHandlers(S) ==
    AddListeners(S, ForEach(QSA(S.els, {"[onclick]"}), <<<<"click", "onclickAnimation">>>>))

SetupCardAnimations(S) ==
    LET cards == QSA(S.els, CardSelectors)
    IN  [S EXCEPT !.dom = SetStyle(@, cards, "0", "translateY(20px)"),
                  !.obs = Observe(@, "cardObserver", cards)]

CardEnhancementInit(S) ==
    SetupCardAnimations(SetupCardClickHandlers(SetupCardHoverEffects(S)))

\* TabEnhancement
TabSelectors == {".irrigation-tab", ".tab-button"}

SetupTabSwitching(S) ==
    AddListeners(S, ForEach(QSA(S.els, TabSelectors), <<<<"click", "tabClick">>>>))

SetupTabIndicator(S) ==
    AddListeners(S, <<[target |-> "window", type |-> "resize", fn |-> "tabIndicatorResize"]>>)

SetupTabAnimations(S) ==
    AddListeners(S, ForEach(QSA(S.els, TabSelectors), Hover("tabEnter", "tabLeave")))

TabEnhancementInit(S) ==
    SetupTabAnimations(SetupTabIndicator(SetupTabSwitching(S)))

\* ButtonEnhancement
SetupButtonEffects(S) ==
    AddListeners(S, ForEach(QSA(S.els, {".btn", "button"}),
        <<<<"click", "ripple">>, <<"mouseenter", "buttonEnter">>, <<"mouseleave", "buttonLeave">>>>))

SetupCTAButtons(S) ==
    AddListeners(S, ForEach(QSA(S.els, {".cta-button", ".btn-primary"}), Hover("ctaEnter", "ctaLeave")))

ButtonEnhancementInit(S) == SetupCTAButtons(SetupButtonEffects(S))

\* ScrollEnhancement
\* A faulty setupScrollAnimations without the check for disabled animations.
SetupScrollAnimationsNoCheck(S) ==
    LET animatedElements == QSA(S.els, CardSelectors \cup SectionSelectors)
    IN  [S EXCEPT !.dom = SetStyle(@, animatedElements, "0", "translateY(20px) scale(0.98)"),
                  !.obs = Observe(@, "scrollObserver", animatedElements)]

SetupScrollAnimations(S) ==
    LET animatedElements == QSA(S.els, CardSelectors \cup SectionSelectors)
    IN  IF page.disabled
        THEN [S EXCEPT !.dom = SetStyle(@, animatedElements, "1", "none")]
        ELSE [S EXCEPT !.dom = SetStyle(@, animatedElements, "0", "translateY(20px) scale(0.98)"),
                       !.obs = Observe(@, "scrollObserver", animatedElements)]

SetupScrollToTop(S) ==
    AddListeners(
        [S EXCEPT !.els = @ \cup {"scrollToTopBtn"},
                  !.dom = SetStyle(@, <<"scrollToTopBtn">>, "0", "translateY(100px) scale(0.8)")],
        <<[target |-> "window", type |-> "scroll", fn |-> "toTopScroll"],
          [target |-> "scrollToTopBtn", type |-> "mouseenter", fn |-> "toTopEnter"],
          [target |-> "scrollToTopBtn", type |-> "mouseleave", fn |-> "toTopLeave"],
          [target |-> "scrollToTopBtn", type |-> "click", fn |-> "toTopClick"]>>)

SetupParallaxEffects(S) ==
    LET parallaxElements == QSA(S.els, SectionSelectors \cup {".comparison-grid"})
    IN  IF page.disabled
        THEN [S EXCEPT !.dom = SetTransform(@, parallaxElements, "none")]
        ELSE AddListeners(S, <<[target |-> "window", type |-> "scroll", fn |-> "parallaxScroll"]>>)

SetupEnhancedScrollEffects(S) ==
    LET textElements == QSA(S.els, TextSelectors)
    IN  IF page.disabled
        THEN [S EXCEPT !.dom = SetStyle(@, textElements, "1", "none")]
        ELSE [S EXCEPT !.dom = SetStyle(@, textElements, "0", "translateY(10px)"),
                       !.obs = Observe(@, "textObserver", textElements)]

SetupScrollProgress(S) ==
    AddListeners([S EXCEPT !.els = @ \cup {"progressBar"}],
        <<[target |-> "window", type |-> "scroll", fn |-> "progressScroll"]>>)

ScrollEnhancementInit(S) ==
    SetupScrollProgress(SetupEnhancedScrollEffects(SetupParallaxEffects(
        SetupScrollToTop(SetupScrollAnimations(S)))))

\* ImageEnhancement
SetupLazyLoading(S) ==
    [S EXCEPT !.obs = Observe(@, "imageObserver", QSA(S.els, {"img[data-src]"}))]

SetupImageZoom(S) ==
    AddListeners(S, ForEach(QSA(S.els, {".zoomable"}), Hover("zoomEnter", "zoomLeave")))

SetupImageGallery(S) ==
    AddListeners(S, ForEach(QSA(S.els, {".gallery-image"}), <<<<"click", "galleryClick">>>>))

ImageEnhancementInit(S) == SetupImageGallery(SetupImageZoom(SetupLazyLoading(S)))

\* PerformanceEnhancement
SetupPerformanceMonitoring(S) ==
    AddListeners(S, <<[target |-> "window", type |-> "load", fn |-> "perfLoad"]>>)

PerformanceEnhancementInit(S) == SetupPerformanceMonitoring(S)

\* AccessibilityEnhancement
SetupKeyboardNavigation(S) ==
    AddListeners(S, ForEach(QSA(S.els, FocusableSelectors), <<<<"keydown", "keyActivate">>>>))

SetupFocusManagement(S) ==
    AddListeners(S, ForEach(QSA(S.els, FocusableSelectors),
        <<<<"focus", "focusOutline">>, <<"blur", "blurOutline">>>>))

\* A button with an .iconify child and no text gets an aria-label from the
\* icon's data-icon; getAttribute returns null when the icon has none, and
\* null.replace raises.
SetupScreenReaderSupport(S) ==
    LET buttons == QSA(S.els, {"button"})
        raises(k) == /\ ".iconify" \in Traits(k)
                     /\ "text" \notin Traits(k)
                     /\ "data-icon" \notin Traits(k)
    IN  IF \E i \in DOMAIN buttons : raises(buttons[i]) THEN [S EXCEPT !.ok = FALSE] ELSE S

AccessibilityEnhancementInit(S) ==
    SetupScreenReaderSupport(SetupFocusManagement(SetupKeyboardNavigation(S)))

-----------------------------------------------------------------------------
(* The DOMContentLoaded handler *)

\* A faulty handler that initialises the scroll module before the button module.
ModuleOrderSwapped ==
    <<"Navigation", "Form", "Card", "Tab", "Scroll", "Button",
      "Image", "Performance", "Accessibility">>

\* The order of the init() calls of the handler.
ModuleOrder ==
    <<"Navigation", "Form", "Card", "Tab", "Button", "Scroll",
      "Image", "Performance", "Accessibility">>

InitOf(m, S) ==
    CASE m = "Navigation" -> NavigationEnhancementInit(S)
      [] m = "Form" -> FormEnhancementInit(S)
      [] m = "Card" -> CardEnhancementInit(S)
      [] m = "Tab" -> TabEnhancementInit(S)
      [] m = "Button" -> ButtonEnhancementInit(S)
      [] m = "Scroll" -> ScrollEnhancementInit(S)
      [] m = "Image" -> ImageEnhancementInit(S)
      [] m = "Performance" -> PerformanceEnhancementInit(S)
      [] m = "Accessibility" -> AccessibilityEnhancementInit(S)

\* The statement after the init() call of module m.
After(m) ==
    LET i == CHOOSE j \in DOMAIN ModuleOrder : ModuleOrder[j] = m
    IN  IF i = Len(ModuleOrder) THEN "done" ELSE ModuleOrder[i + 1]

\* The document before the script has touched it.
InitPage(pages) ==
    /\ page \in pages
    /\ pc = "loading"
    /\ initLog = <<>>
    /\ elements = page.kinds
    /\ listeners = <<>>
    /\ observed = {}
    /\ errors = {}
    /\ ran = {}
    /\ lastEvent = [n |-> 0, type |-> "none", target |-> "none", id |-> 0,
                    prevented |-> FALSE, ret |-> "undefined"]

\* DOMContentLoaded fires: the handler starts; on a page with disabled card
\* animations it first makes every card, section and text element visible.
DOMContentLoaded ==
    /\ pc = "loading"
    /\ pc' = ModuleOrder[1]
    /\ dom' = IF page.disabled
              THEN SetStyle(dom, QSA(elements, CardSelectors \cup SectionSelectors \cup TextSelectors),
                            "1", "none")
              ELSE dom
    /\ UNCHANGED <<page, initLog, elements, listeners, observed, form, win, errors, ran,
                   lastEvent, clockVars, debVars>>

\* The next statement of the handler: the init() of module m.  An error raised
\* by init() ends the handler.
ModuleInit(m) ==
    /\ pc = m
    /\ LET S == InitOf(m, [els |-> elements, ls |-> listeners, obs |-> observed,
                           dom |-> dom, ok |-> TRUE])
       IN  /\ elements' = S.els
           /\ listeners' = S.ls
           /\ observed' = S.obs
           /\ dom' = S.dom
           /\ pc' = IF S.ok THEN After(m) ELSE "failed"
           /\ errors' = IF S.ok THEN errors ELSE errors \cup {"DOMContentLoaded"}
    /\ initLog' = Append(initLog, m)
    /\ UNCHANGED <<page, form, win, ran, lastEvent, clockVars, debVars>>

NavigationInit == ModuleInit("Navigation")
FormInit == ModuleInit("Form")
CardInit == ModuleInit("Card")
TabInit == ModuleInit("Tab")
ButtonInit == ModuleInit("Button")
ScrollInit == ModuleInit("Scroll")
ImageInit == ModuleInit("Image")
PerformanceInit == ModuleInit("Performance")
AccessibilityInit == ModuleInit("Accessibility")

Handler ==
    \/ DOMContentLoaded
    \/ NavigationInit
    \/ FormInit
    \/ CardInit
    \/ TabInit
    \/ ButtonInit
    \/ ScrollInit
    \/ ImageInit
    \/ PerformanceInit
    \/ AccessibilityInit

\* No debounce wrapper of the debounce specification exists on a page.
NoGeneric ==
    /\ calls = <<>>
    /\ invocations = <<>>
    /\ lastCall = <<>>
    /\ lastInvoke = <<>>
    /\ served = <<>>
    /\ bursts = <<>>

-----------------------------------------------------------------------------
(* The initialisation specification: any page made of the groups of optional *)
(* elements below, with card animations disabled or not.                     *)

PageGroups ==
    {{"navbar"}, {"navbarEnd"}, {"navLink", "anchor"}, {"menuButton"}, {"menu", "menuLink"},
     {"form", "field", "submitButton"}, {"card", "ctaButton"},
     {"tabButton1", "tabButton2", "tabContent1", "tabContent2"},
     {"iconButton"}, {"text", "section", "footer", "image"}}

\* What the script reads of the page besides its elements: whether card
\* animations are disabled for it, the field's attributes, the data-tab of the
\* two tab buttons.
PlainAttributes ==
    [required |-> TRUE, type |-> "text", tab1 |-> "t1", tab2 |-> "t2"]

AnyPages ==
    {[kinds |-> UNION G, disabled |-> d, attrs |-> PlainAttributes] :
        G \in SUBSET PageGroups, d \in BOOLEAN}

\* The form as served: an empty field, no message, the submit button enabled.
NoForm == [value |-> <<>>, messages |-> <<>>, html |-> "original", disabled |-> FALSE,
           success |-> 0]

InitInit ==
    /\ InitClock
    /\ NoGeneric
    /\ InitPage(AnyPages)
    /\ dom = [k \in AllKinds |-> Unstyled]
    /\ form = NoForm
    /\ win = [scrollY |-> 0, innerWidth |-> MobileBreakpoint]

NextInit == Handler

SpecInit == InitInit /\ [][NextInit]_vars

C8_BarePageNoOp ==
    page.kinds = {} =>
        /\ pc # "failed"
        /\ errors = {}
        /\ \A i \in DOMAIN listeners : listeners[i].target \notin PageKinds

\* The handler has run to its end on the bare page; the listeners it registered
\* are on window and on the scroll-to-top button it created.
C8_Witness ==
    /\ page.kinds = {}
    /\ pc = "done"
    /\ \E i \in DOMAIN listeners : listeners[i].target = "window"
    /\ \E i \in DOMAIN listeners : listeners[i].target = "scrollToTopBtn"

-----------------------------------------------------------------------------
(* Strings are sequences of characters. *)

Whitespace == {" "}
Digits == {"0", "1", "2", "3", "4", "5", "6", "7", "8", "9"}

\* value.trim()
RECURSIVE Trim(_)
Trim(v) ==
    IF v = <<>> THEN v
    ELSE IF Head(v) \in Whitespace THEN Trim(Tail(v))
    ELSE IF v[Len(v)] \in Whitespace THEN Trim(SubSeq(v, 1, Len(v) - 1))
    ELSE v

\* value.replace(/\s/g, '')
StripWhitespace(v) == SelectSeq(v, LAMBDA ch : ch \notin Whitespace)

\* /^[^\s@]+@[^\s@]+\.[^\s@]+$/.test(v)
EmailRegexTest(v) ==
    \E i \in 2..Len(v) :
        /\ v[i] = "@"
        /\ \A k \in DOMAIN v : k # i => v[k] \notin Whitespace \cup {"@"}
        /\ \E j \in (i + 2)..(Len(v) - 1) : v[j] = "."

\* /^[\+]?[1-9][\d]{0,15}$/.test(v)
PhoneRegexTest(v) ==
    LET digits == IF v # <<>> /\ Head(v) = "+" THEN Tail(v) ELSE v
    IN  /\ Len(digits) \in 1..16
        /\ Head(digits) \in Digits \ {"0"}
        /\ \A k \in DOMAIN digits : digits[k] \in Digits

-----------------------------------------------------------------------------
(* Events.  A listener is a map from W, the part of the state it reads and   *)
(* writes, to W after it; W.stopped and W.prevented are the flags of the     *)
(* event being dispatched.                                                   *)

PageWorld ==
    [timers |-> timers, nextId |-> nextId, timeout |-> timeout, dom |-> dom,
     form |-> form, errors |-> errors, ran |-> ran,
     stopped |-> FALSE, prevented |-> FALSE, ret |-> "undefined"]

\* The parent of an element, as far as the listeners depend on it.
Parent(k) ==
    CASE k = "menuLink" -> "menu"
      [] k = "field" -> "form"
      [] k = "submitButton" -> "form"
      [] k = "languageButton" -> "languageSwitcher"
      [] k = "languageSwitcher" -> "navbarEnd"
      [] k = "document" -> "window"
      [] OTHER -> "document"

\* The propagation path of a bubbling event.
RECURSIVE Path(_)
Path(k) == IF k = "window" THEN <<"window">> ELSE <<k>> \o Path(Parent(k))

\* node.contains(target)
Contains(node, target) == \E i \in DOMAIN Path(target) : Path(target)[i] = node

Bubbles(type) == type \in {"click", "keydown", "input", "submit"}

\* The methods a receiver has.  The functions of FormEnhancement are
\* properties of that object only: no element has them, and `this` is
\* undefined in a function called without a receiver (strict mode).
Methods(this) ==
    IF this = "FormEnhancement"
    THEN {"init", "setupFormValidation", "setupFormSubmission", "setupInputEnhancements",
          "validateField", "showFieldError", "validateForm", "showSuccessMessage"}
    ELSE IF this \in AllKinds THEN {"click", "remove", "querySelector", "querySelectorAll",
                                     "getAttribute", "hasAttribute", "addEventListener"}
    ELSE {}

\* An uncaught TypeError in listener or callback fn.
Raise(W, fn) == [W EXCEPT !.errors = @ \cup {fn}]

AddClass(W, k, c) == [W EXCEPT !.dom[k].classes = @ \cup {c}]
RemoveClass(W, k, c) == [W EXCEPT !.dom[k].classes = @ \ {c}]
Style(W, k, op, tr) == [W EXCEPT !.dom[k].opacity = op, !.dom[k].transform = tr]
Invoked(W, f) == [W EXCEPT !.ran = @ \cup {f}]

\* setTimeout(cb, delay) from a listener.
Arm(W, cb, delay, arg) ==
    [W EXCEPT !.timers = SetTimeout(@, W.nextId, cb, delay, arg, 0), !.nextId = @ + 1]

\* NavigationEnhancement.setupMobileMenu, the click listener of the button
\* with classList.toggle replaced by classList.add.
MenuToggleAdds(W, ev) ==
    Style(AddClass([W EXCEPT !.stopped = TRUE], "menu", "hidden"),
          "menu", "0", "translateY(-10px)")

\* NavigationEnhancement.setupMobileMenu, the click listener of the button.
MenuToggle(W, ev) ==
    LET W1 == [W EXCEPT !.stopped = TRUE]
        W2 == IF "hidden" \in W1.dom["menu"].classes
              THEN RemoveClass(W1, "menu", "hidden")
              ELSE AddClass(W1, "menu", "hidden")
    IN  IF "hidden" \notin W2.dom["menu"].classes
        THEN Style(W2, "menu", "1", "translateY(0)")
        ELSE Style(W2, "menu", "0", "translateY(-10px)")

\* A faulty click listener of document that closes the menu wherever the
\* click was.
MenuClickAnywhere(W, ev) ==
    Style(AddClass(W, "menu", "hidden"), "menu", "0", "translateY(-10px)")

\* NavigationEnhancement.setupMobileMenu, the click listener of document.
MenuClickOutside(W, ev) ==
    IF ~Contains("menu", ev.target) /\ ~Contains("menuButton", ev.target)
    THEN Style(AddClass(W, "menu", "hidden"), "menu", "0", "translateY(-10px)")
    ELSE W

\* A faulty resize listener that closes the menu above the breakpoint only.
MenuResizeAbove(W) ==
    IF win.innerWidth > MobileBreakpoint THEN AddClass(W, "menu", "hidden") ELSE W

\* NavigationEnhancement.setupMobileMenu, the debounced resize listener.
MenuResize(W) ==
    IF win.innerWidth >= MobileBreakpoint THEN AddClass(W, "menu", "hidden") ELSE W

\* A faulty sticky navigation that is styled from the threshold on.
StickyScrollInclusive(W) ==
    IF win.scrollY >= StickyThreshold
    THEN [AddClass(W, "navbar", "shadow-lg")
            EXCEPT !.dom["navbar"].background = "rgba(255, 255, 255, 0.95)"]
    ELSE [RemoveClass(W, "navbar", "shadow-lg") EXCEPT !.dom["navbar"].background = ""]

\* NavigationEnhancement.setupStickyNavigation, the debounced scroll listener:
\* the class and navbar.style.backgroundColor.
StickyScroll(W) ==
    IF win.scrollY > StickyThreshold
    THEN [AddClass(W, "navbar", "shadow-lg")
            EXCEPT !.dom["navbar"].background = "rgba(255, 255, 255, 0.95)"]
    ELSE [RemoveClass(W, "navbar", "shadow-lg") EXCEPT !.dom["navbar"].background = ""]

\* CardEnhancement.setupCardClickHandlers, the click listener.
OnclickAnimation(W, this) ==
    Arm([W EXCEPT !.dom[this].transform = "scale(0.92)"], "onclickReset", OnclickResetDelay, this)

\* window.toggleLanguage, the onclick of the language button.
ToggleLanguage(W) ==
    Arm([W EXCEPT !.dom["languageButton"].transform = "scale(0.95)"],
        "languageReset", LanguageResetDelay, "languageButton")

\* document.getElementById(tabId + '-content')
ContentById(els, tabId) ==
    CASE tabId = "t1" /\ "tabContent1" \in els -> "tabContent1"
      [] tabId = "t2" /\ "tabContent2" \in els -> "tabContent2"
      [] OTHER -> "null"

\* classList.add(c) / classList.remove(c) on every element of ts.
RECURSIVE AddClassAll(_, _, _)
AddClassAll(W, ts, c) ==
    IF ts = <<>> THEN W ELSE AddClassAll(AddClass(W, Head(ts), c), Tail(ts), c)

RECURSIVE RemoveClassAll(_, _, _)
RemoveClassAll(W, ts, c) ==
    IF ts = <<>> THEN W ELSE RemoveClassAll(RemoveClass(W, Head(ts), c), Tail(ts), c)

\* A faulty switchTab that shows the selected content without hiding the others.
SwitchTabNoHide(W, tabId, clickedTab) ==
    LET selectedContent == ContentById(elements, tabId)
        W2 == IF selectedContent = "null" THEN W
              ELSE Arm(Style(AddClass(RemoveClass(W, selectedContent, "hidden"),
                                      selectedContent, "active"),
                             selectedContent, "0", "translateY(10px)"),
                       "tabFadeIn", TabFadeDelay, selectedContent)
    IN  Invoked(AddClass(RemoveClassAll(W2, QSA(elements, TabSelectors), "active"),
                         clickedTab, "active"), "switchTab")

\* TabEnhancement.switchTab
SwitchTab(W, tabId, clickedTab) ==
    LET allContents == QSA(elements, {".tab-content"})
        W1 == RemoveClassAll(AddClassAll(W, allContents, "hidden"), allContents, "active")
        selectedContent == ContentById(elements, tabId)
        W2 == IF selectedContent = "null" THEN W1
              ELSE Arm(Style(AddClass(RemoveClass(W1, selectedContent, "hidden"),
                                      selectedContent, "active"),
                             selectedContent, "0", "translateY(10px)"),
                       "tabFadeIn", TabFadeDelay, selectedContent)
    IN  Invoked(AddClass(RemoveClassAll(W2, QSA(elements, TabSelectors), "active"),
                         clickedTab, "active"), "switchTab")

\* this.getAttribute('data-tab') of a tab button ("none": no such attribute).
DataTab(this) == IF this = "tabButton1" THEN page.attrs.tab1 ELSE page.attrs.tab2

\* TabEnhancement.setupTabSwitching, the click listener.
TabClick(W, this) ==
    LET tabId == DataTab(this)
        W1 == [W EXCEPT !.prevented = TRUE]
    IN  IF tabId # "none" THEN SwitchTab(W1, tabId, this) ELSE W1

\* A function returns v, or ends with a TypeError that propagates to its caller.
Return(W, v) == [W EXCEPT !.ret = v]
Throw(W) == [W EXCEPT !.ret = "TypeError"]

\* The end of a listener or timer callback fn: an error that reached it is
\* uncaught.
Uncaught(W, fn) ==
    IF W.ret = "TypeError" THEN Raise([W EXCEPT !.ret = "undefined"], fn)
    ELSE [W EXCEPT !.ret = "undefined"]

\* FormEnhancement.showFieldError with `this` the field: the first .field-error
\* of the parent is removed and a new one is appended.
ShowFieldError(W, this, message) ==
    LET existing == W.form.messages
    IN  [W EXCEPT !.form.messages =
            Append(IF existing # <<>> THEN Tail(existing) ELSE existing, message)]

\* FormEnhancement.validateField with `this` the receiver of the call.  Only
\* an input has a value, a type and classes; this.showFieldError is a call
\* of a method of the same receiver.
ValidateField(W, this) ==
    IF "input" \notin Traits(this) THEN Throw(W)
    ELSE
    LET value == Trim(W.form.value)
        fieldType == page.attrs.type
        required == page.attrs.required
        W1 == RemoveClass(RemoveClass(W, this, "error"), this, "success")
        Invalid(message) ==
            LET W2 == AddClass(W1, this, "error")
            IN  IF "showFieldError" \in Methods(this)
                THEN Return(ShowFieldError(W2, this, message), "false")
                ELSE Throw(W2)
    IN  IF required /\ value = <<>> THEN Invalid("This field is required")
        ELSE IF fieldType = "email" /\ value # <<>> /\ ~EmailRegexTest(value)
        THEN Invalid("Please enter a valid email address")
        ELSE IF fieldType = "tel" /\ value # <<>> /\ ~PhoneRegexTest(StripWhitespace(value))
        THEN Invalid("Please enter a valid phone number")
        ELSE Return(IF value # <<>> THEN AddClass(W1, this, "success") ELSE W1, "true")

\* inputs.forEach(input => { if (!input.validateField()) isValid = false; })
RECURSIVE ValidateInputs(_, _, _)
ValidateInputs(W, inputs, isValid) ==
    IF inputs = <<>> THEN Return(W, IF isValid THEN "true" ELSE "false")
    ELSE IF "validateField" \notin Methods(Head(inputs)) THEN Throw(W)
    ELSE LET W1 == ValidateField(W, Head(inputs))
         IN  IF W1.ret = "TypeError" THEN W1
             ELSE ValidateInputs(W1, Tail(inputs), isValid /\ W1.ret = "true")

\* FormEnhancement.validateForm with `this` the receiver of the call.
ValidateForm(W, this) ==
    IF "querySelectorAll" \notin Methods(this) THEN Throw(W)
    ELSE ValidateInputs(W, QSA({k \in elements : Contains(this, k)},
                               {"input", "textarea", "select"}), TRUE)

\* FormEnhancement.showSuccessMessage: the message is appended to the body,
\* and a timer that removes it is armed.
ShowSuccessMessage(W) ==
    Arm([W EXCEPT !.form.success = @ + 1], "successRemove", SuccessDelay, "body")

\* FormEnhancement.setupFormValidation, the blur listener: this.validateField()
\* with `this` the input.
FieldBlur(W, this) ==
    IF "validateField" \in Methods(this)
    THEN Uncaught(Invoked(ValidateField(W, this), "validateField"), "fieldBlur")
    ELSE Raise(W, "fieldBlur")

\* FormEnhancement.setupFormValidation, the debounced input listener: func is
\* called without a receiver, so this.classList reads a property of undefined.
FieldInput(W) ==
    LET this == "undefined"
    IN  IF this \notin AllKinds THEN Raise(W, "fieldInput")
        ELSE IF "error" \notin W.dom[this].classes THEN W
        ELSE IF "validateField" \in Methods(this)
        THEN Uncaught(Invoked(ValidateField(W, this), "validateField"), "fieldInput")
        ELSE Raise(W, "fieldInput")

\* FormEnhancement.setupFormValidation, the submit listener:
\* if (!this.validateForm()) e.preventDefault(), with `this` the form.
FormSubmitValidate(W, this) ==
    IF "validateForm" \in Methods(this)
    THEN LET W1 == Invoked(ValidateForm(W, this), "validateForm")
         IN  Uncaught(IF W1.ret = "false" THEN [W1 EXCEPT !.prevented = TRUE] ELSE W1,
                      "formSubmitValidate")
    ELSE Raise(W, "formSubmitValidate")

\* Utils.addLoadingState(element, text): the spinner markup replaces the
\* content of the element, which is disabled; restore() gets originalHTML.
AddLoadingState(W) == [W EXCEPT !.form.html = "loading", !.form.disabled = TRUE]

\* restore() of Utils.addLoadingState
Restore(W, originalHTML) == [W EXCEPT !.form.html = originalHTML, !.form.disabled = FALSE]

\* FormEnhancement.setupFormSubmission, the submit listener; the timer
\* carries the originalHTML of loadingState.
FormSubmitSend(W) ==
    IF QS(elements, {"button[type=submit]", "input[type=submit]"}) = "null" THEN W
    ELSE Arm(AddLoadingState(W), "sendDone", SendDelay, W.form.html)

\* The callback of that timer: loadingState.restore(), then
\* this.showSuccessMessage() with `this` the form.
SendDone(W, originalHTML) ==
    LET W1 == Restore(W, originalHTML)
        this == "form"
    IN  IF "showSuccessMessage" \in Methods(this)
        THEN Invoked(ShowSuccessMessage(W1), "showSuccessMessage")
        ELSE Raise(W1, "sendDone")

\* ButtonEnhancement.setupButtonEffects, the click listener.
Ripple(W, this) == Arm(W, "rippleRemove", RippleDelay, this)

\* A faulty scroll listener that shows the button from the threshold on.
ToTopScrollInclusive(W) ==
    IF win.scrollY >= ToTopThreshold
    THEN Style(W, "scrollToTopBtn", "1", "translateY(0) scale(1)")
    ELSE Style(W, "scrollToTopBtn", "0", "translateY(100px) scale(0.8)")

\* ScrollEnhancement.setupScrollToTop, the debounced scroll listener.
ToTopScroll(W) ==
    IF win.scrollY > ToTopThreshold
    THEN Style(W, "scrollToTopBtn", "1", "translateY(0) scale(1)")
    ELSE Style(W, "scrollToTopBtn", "0", "translateY(100px) scale(0.8)")

\* ScrollEnhancement.setupParallaxEffects, the debounced scroll listener: the
\* sections that are no cards and not in the footer are translated.
ParallaxScroll(W) ==
    [W EXCEPT !.dom = SetTransform(@,
        SelectSeq(QSA(elements, SectionSelectors \cup {".comparison-grid"}),
                  LAMBDA k : Traits(k) \cap CardSelectors = {}),
        "translateY(parallax)")]

-----------------------------------------------------------------------------
(* Dispatch *)

RECURSIVE Run(_, _, _), RunAll(_, _, _), RunPath(_, _, _), Dispatch(_, _)

\* The listener l runs for the event ev; `this` is the element it was added to.
Run(l, W, ev) ==
    LET fn == l.fn
        this == l.target
    IN  CASE fn = "menuToggle" -> MenuToggle(W, ev)
          [] fn = "menuClickOutside" -> MenuClickOutside(W, ev)
          [] fn = "anchorClick" -> [W EXCEPT !.prevented = TRUE]
          [] fn = "onclickAnimation" -> OnclickAnimation(W, this)
          [] fn = "toggleLanguage" -> ToggleLanguage(W)
          [] fn = "tabClick" -> TabClick(W, this)
          [] fn = "ripple" -> Ripple(W, this)
          [] fn = "keyActivate" ->
                \* Enter or space: preventDefault and this.click()
                IF ev.key \in {"Enter", " "}
                THEN [Dispatch([type |-> "click", target |-> this, key |-> ""], W)
                        EXCEPT !.stopped = W.stopped, !.prevented = TRUE]
                ELSE W
          [] fn = "fieldBlur" -> FieldBlur(W, this)
          [] fn = "formSubmitValidate" -> FormSubmitValidate(W, this)
          [] fn = "formSubmitSend" -> FormSubmitSend(W)
          [] fn \in PageWrappers -> ExecutedFunction(W, fn, Wait(fn), this, 0)
          [] fn = "navLinkEnter" -> [W EXCEPT !.dom[this].transform = "translateY(-1px)"]
          [] fn = "navLinkLeave" -> [W EXCEPT !.dom[this].transform = "translateY(0)"]
          [] fn = "cardEnter" -> [W EXCEPT !.dom[this].transform = "translateY(-8px) scale(1.02)"]
          [] fn = "cardLeave" -> [W EXCEPT !.dom[this].transform = "translateY(0) scale(1)"]
          [] fn \in {"tabEnter", "buttonEnter"} ->
                [W EXCEPT !.dom[this].transform = "translateY(-2px)"]
          [] fn \in {"tabLeave", "buttonLeave"} ->
                [W EXCEPT !.dom[this].transform = "translateY(0)"]
          [] fn = "zoomEnter" -> [W EXCEPT !.dom[this].transform = "scale(1.1)"]
          [] fn = "zoomLeave" -> [W EXCEPT !.dom[this].transform = "scale(1)"]
          [] fn = "toTopEnter" -> AddClass(W, this, "scroll-to-top-hover")
          [] fn = "toTopLeave" -> RemoveClass(W, this, "scroll-to-top-hover")
          \* ctaEnter, ctaLeave, toTopClick, galleryClick, labelBlur, blurOutline:
          \* no class, opacity or transform of an element changes, no timer is armed
          [] OTHER -> W

\* The listeners ls run in order; an error in one does not stop the next.
RunAll(ls, W, ev) ==
    IF ls = <<>> THEN W ELSE RunAll(Tail(ls), Run(Head(ls), W, ev), ev)

\* The event visits the nodes of its path until propagation is stopped.
RunPath(path, W, ev) ==
    IF path = <<>> \/ W.stopped THEN W
    ELSE RunPath(Tail(path),
                 RunAll(SelectSeq(listeners,
                            LAMBDA l : l.target = Head(path) /\ l.type = ev.type), W, ev),
                 ev)

Dispatch(ev, W) ==
    RunPath(IF Bubbles(ev.type) THEN Path(ev.target) ELSE <<ev.target>>,
            [W EXCEPT !.stopped = FALSE, !.prevented = FALSE], ev)

\* The callback of the delivered timer t.
Callback(W, t) ==
    LET cb == t.cb
        W1 == IF cb \in PageWrappers THEN Later(W, t) ELSE [W EXCEPT !.timers = @ \ {t}]
    IN  CASE cb = "menuResize" -> MenuResize(W1)
          [] cb = "stickyScroll" -> StickyScroll(W1)
          [] cb = "fieldInput" -> FieldInput(W1)
          [] cb = "toTopScroll" -> ToTopScroll(W1)
          [] cb = "parallaxScroll" -> ParallaxScroll(W1)
          [] cb = "onclickReset" -> [W1 EXCEPT !.dom[t.arg].transform = ""]
          [] cb = "languageReset" -> [W1 EXCEPT !.dom[t.arg].transform = ""]
          [] cb = "tabFadeIn" -> Style(W1, t.arg, "1", "translateY(0)")
          [] cb = "sendDone" -> SendDone(W1, t.arg)
          [] cb = "successRemove" -> [W1 EXCEPT !.form.success = @ - 1]
          \* tabIndicatorResize, progressScroll, rippleRemove: styles the model
          \* does not follow
          [] OTHER -> W1

Commit(W) ==
    /\ timers' = W.timers
    /\ nextId' = W.nextId
    /\ timeout' = W.timeout
    /\ dom' = W.dom
    /\ form' = W.form
    /\ errors' = W.errors
    /\ ran' = W.ran

\* A faulty callback of the scroll observer that reveals an element each time
\* it intersects.
ObserverCallbackAlways(W, observer, target, isIntersecting) ==
    IF ~isIntersecting THEN W
    ELSE CASE observer = "cardObserver" -> Style(W, target, "1", "translateY(0)")
           [] observer = "scrollObserver" ->
                AddClass(Style(W, target, "1", "translateY(0) scale(1)"), target, "animated")
           [] observer = "textObserver" ->
                AddClass(Style(W, target, "1", "translateY(0)"), target, "text-animated")
           [] OTHER -> W

\* The callbacks of the IntersectionObservers, for one entry: the observer of
\* CardEnhancement, the scroll observer and the text observer of
\* ScrollEnhancement, the lazy-loading observer of ImageEnhancement.
ObserverCallback(W, observer, target, isIntersecting) ==
    IF ~isIntersecting THEN W
    ELSE CASE observer = "cardObserver" -> Style(W, target, "1", "translateY(0)")
           [] observer = "scrollObserver" ->
                IF "animated" \notin W.dom[target].classes
                THEN AddClass(Style(W, target, "1", "translateY(0) scale(1)"), target, "animated")
                ELSE W
           [] observer = "textObserver" ->
                IF "text-animated" \notin W.dom[target].classes
                THEN AddClass(Style(W, target, "1", "translateY(0)"), target, "text-animated")
                ELSE W
           \* imageObserver: src is set, 'lazy' is removed
           [] OTHER -> RemoveClass(W, target, "lazy")

\* The handler has returned: the browser dispatches events.
Ready == pc \in {"done", "failed"} /\ DueTimers = {} /\ lastEvent.n < MaxEvents

\* What is kept of the event of the step: whether its default action was
\* prevented.
Occurred(type, target, W) ==
    lastEvent' = [n |-> lastEvent.n + 1, type |-> type, target |-> target, id |-> 0,
                  prevented |-> W.prevented, ret |-> "undefined"]

Focusable == {k \in elements : Traits(k) \cap FocusableSelectors # {}}

\* A click on element k, or on the document outside every element.
Click(k) ==
    /\ Ready
    /\ LET W == Dispatch([type |-> "click", target |-> k, key |-> ""], PageWorld)
       IN  Commit(W) /\ Occurred("click", k, W)
    /\ UNCHANGED <<now, page, pc, initLog, elements, listeners, observed, win, debVars>>

\* A key pressed while element k has the focus.
KeyDown(k, key) ==
    /\ Ready
    /\ LET W == Dispatch([type |-> "keydown", target |-> k, key |-> key], PageWorld)
       IN  Commit(W) /\ Occurred("keydown", k, W)
    /\ UNCHANGED <<now, page, pc, initLog, elements, listeners, observed, win, debVars>>

\* Element k loses the focus.
Blur(k) ==
    /\ Ready
    /\ LET W == Dispatch([type |-> "blur", target |-> k, key |-> ""], PageWorld)
       IN  Commit(W) /\ Occurred("blur", k, W)
    /\ UNCHANGED <<now, page, pc, initLog, elements, listeners, observed, win, debVars>>

\* The user changes the value of the field to v.
Input(v) ==
    /\ Ready
    /\ "field" \in elements
    /\ LET W == Dispatch([type |-> "input", target |-> "field", key |-> ""],
                         [PageWorld EXCEPT !.form.value = v])
       IN  Commit(W) /\ Occurred("input", "field", W)
    /\ UNCHANGED <<now, page, pc, initLog, elements, listeners, observed, win, debVars>>

\* The form is submitted.
Submit ==
    /\ Ready
    /\ "form" \in elements
    /\ LET W == Dispatch([type |-> "submit", target |-> "form", key |-> ""], PageWorld)
       IN  Commit(W) /\ Occurred("submit", "form", W)
    /\ UNCHANGED <<now, page, pc, initLog, elements, listeners, observed, win, debVars>>

\* The page is scrolled to y.
Scroll(y) ==
    /\ Ready
    /\ win' = [win EXCEPT !.scrollY = y]
    /\ LET W == Dispatch([type |-> "scroll", target |-> "window", key |-> ""], PageWorld)
       IN  Commit(W) /\ Occurred("scroll", "window", W)
    /\ UNCHANGED <<now, page, pc, initLog, elements, listeners, observed, debVars>>

\* The window is resized to width w.
Resize(w) ==
    /\ Ready
    /\ win' = [win EXCEPT !.innerWidth = w]
    /\ LET W == Dispatch([type |-> "resize", target |-> "window", key |-> ""], PageWorld)
       IN  Commit(W) /\ Occurred("resize", "window", W)
    /\ UNCHANGED <<now, page, pc, initLog, elements, listeners, observed, debVars>>

\* The pointer enters or leaves element k.
Mouse(type, k) ==
    /\ Ready
    /\ LET W == Dispatch([type |-> type, target |-> k, key |-> ""], PageWorld)
       IN  Commit(W) /\ Occurred(type, k, W)
    /\ UNCHANGED <<now, page, pc, initLog, elements, listeners, observed, win, debVars>>

\* An observed element starts or stops intersecting the viewport: the
\* callback of its observer runs; the lazy-loading observer then stops
\* observing the image.
Intersect(observer, k, isIntersecting) ==
    /\ Ready
    /\ <<observer, k>> \in observed
    /\ LET W == ObserverCallback(PageWorld, observer, k, isIntersecting)
       IN  Commit(W)
    /\ lastEvent' = [n |-> lastEvent.n + 1, type |-> observer, target |-> k, id |-> 0,
                     prevented |-> FALSE, ret |-> "undefined"]
    /\ observed' = IF observer = "imageObserver" /\ isIntersecting
                   THEN observed \ {<<observer, k>>} ELSE observed
    /\ UNCHANGED <<now, page, pc, initLog, elements, listeners, win, debVars>>

\* A due timer is delivered and its callback runs.
TimerFire ==
    \E t \in DueTimers :
        /\ Commit(Callback(PageWorld, t))
        /\ lastEvent' = [n |-> lastEvent.n, type |-> "timer", target |-> t.cb, id |-> t.id,
                         prevented |-> FALSE, ret |-> "undefined"]
        /\ UNCHANGED <<now, page, pc, initLog, elements, listeners, observed, win, debVars>>

\* The delay each callback is armed with.
Delay(cb) ==
    CASE cb \in Wrappers -> Wait(cb)
      [] cb = "onclickReset" -> OnclickResetDelay
      [] cb = "languageReset" -> LanguageResetDelay
      [] cb = "tabFadeIn" -> TabFadeDelay
      [] cb = "rippleRemove" -> RippleDelay
      [] cb = "sendDone" -> SendDelay
      [] cb = "successRemove" -> SuccessDelay

\* Time passes while timers are pending: up to the next due time, or, when the
\* next timer has just been armed, to half its delay.  On a page the clock is
\* kept relative: `now` stays 0 and the due times of the pending timers move
\* closer instead.
PageTick ==
    /\ timers # {}
    /\ DueTimers = {}
    /\ LET next == CHOOSE d \in {t.due : t \in timers} : \A t \in timers : d <= t.due
           fresh == \E t \in timers : t.due = next /\ t.due - now = Delay(t.cb)
       IN  \E d \in {next - now} \cup (IF fresh THEN {(next - now) \div 2} ELSE {}) :
              timers' = {[t EXCEPT !.due = @ - d] : t \in timers}
    /\ UNCHANGED <<now, nextId, timeout, debVars, pageVars>>

-----------------------------------------------------------------------------
(* The mobile menu specification: pages with the menu button and #mobileMenu, *)
(* with or without a navbar, the menu hidden or shown as served.              *)

MenuPages ==
    {[kinds |-> {"menuButton", "menu", "menuLink"} \cup extra, disabled |-> FALSE,
      attrs |-> PlainAttributes] :
        extra \in {{}, {"navbar", "navbarEnd"}, {"navLink", "anchor"}}}

\* Window widths on both sides of the mobile breakpoint.
Widths == {MobileBreakpoint - 1, MobileBreakpoint}

InitMenu ==
    /\ InitClock
    /\ NoGeneric
    /\ InitPage(MenuPages)
    /\ \E classes \in {{}, {"hidden"}} :
          dom = [k \in AllKinds |->
                    IF k = "menu" THEN [Unstyled EXCEPT !.classes = classes] ELSE Unstyled]
    /\ form = NoForm
    /\ win \in [scrollY : {0}, innerWidth : Widths]

NextMenu ==
    \/ Handler
    \/ \E k \in elements \cup {"document"} : Click(k)
    \/ \E k \in Focusable, key \in {"Enter", "x"} : KeyDown(k, key)
    \/ \E w \in Widths : Resize(w)
    \/ TimerFire
    \/ PageTick

SpecMenu == InitMenu /\ [][NextMenu]_vars

MenuHidden == "hidden" \in dom["menu"].classes

\* The step is a click on the mobile menu button.
MenuButtonClicked ==
    /\ lastEvent'.n # lastEvent.n
    /\ lastEvent'.type = "click"
    /\ lastEvent'.target = "menuButton"

\* C5: every click on the mobile menu button flips the membership of 'hidden'
\* in the classes of #mobileMenu exactly once; the click-outside listener of
\* document does not hide the menu again in response to that click.
C5_ButtonClickToggles ==
    [][MenuButtonClicked => (MenuHidden' # MenuHidden)]_vars

\* The menu is shown after a click on the button that followed other events.
C5_Witness ==
    /\ lastEvent.type = "click"
    /\ lastEvent.target = "menuButton"
    /\ lastEvent.n >= 2
    /\ ~MenuHidden
    /\ dom["menu"].opacity = "1"

\* The step is a click, and k is its target.
Clicked(k) ==
    /\ lastEvent'.n # lastEvent.n
    /\ lastEvent'.type = "click"
    /\ lastEvent'.target = k

\* C21: a click whose target is outside both #mobileMenu and the mobile menu
\* button closes the menu: afterwards the menu has class 'hidden', opacity '0'
\* and transform 'translateY(-10px)'; a click whose target is inside the menu
\* leaves the membership of 'hidden' unchanged.
C21_ClickOutsideCloses ==
    [][\A k \in elements \cup {"document"} :
          Clicked(k) =>
            /\ (~Contains("menu", k) /\ ~Contains("menuButton", k)) =>
                  /\ MenuHidden'
                  /\ dom'["menu"].opacity = "0"
                  /\ dom'["menu"].transform = "translateY(-10px)"
            /\ Contains("menu", k) => (MenuHidden' = MenuHidden)]_vars

\* A link inside the menu was clicked while the menu, opened by the button
\* before, was shown: it is still shown.
C21_Witness ==
    /\ lastEvent.type = "click"
    /\ lastEvent.target = "menuLink"
    /\ lastEvent.n >= 2
    /\ ~MenuHidden
    /\ dom["menu"].opacity = "1"

\* The step is a run of the debounced resize listener of the menu.
MenuResizeRan ==
    /\ lastEvent' # lastEvent
    /\ lastEvent'.type = "timer"
    /\ lastEvent'.target = "menuResize"

\* C22: when resize events have stopped for 250 ms and window.innerWidth is
\* then at least 1024, the mobile menu has class 'hidden' afterwards; when the
\* width is below 1024 the debounced listener leaves the classes of the menu
\* unchanged.
C22_ResizeCloses ==
    [][MenuResizeRan =>
          IF win.innerWidth >= 1024
          THEN MenuHidden' /\ dom'["menu"].classes = dom["menu"].classes \cup {"hidden"}
          ELSE dom'["menu"].classes = dom["menu"].classes]_vars

\* The listener ran at width 1024 while the menu, opened by the button, was
\* shown: the menu is hidden.
C22_Witness ==
    /\ lastEvent.type = "timer"
    /\ lastEvent.target = "menuResize"
    /\ win.innerWidth = 1024
    /\ MenuHidden
    /\ dom["menu"].opacity = "1"

\* C23: the class and the inline style of the mobile menu stay consistent:
\* once a menu listener has run, the menu has class 'hidden' if and only if
\* its inline opacity is '0', and lacks it if and only if its opacity is '1'.
\* The opacity is set by menu listeners only, so a state in which it is set
\* is a state after a menu listener has run.
C23_HiddenIffTransparent ==
    dom["menu"].opacity # "" =>
        /\ MenuHidden <=> dom["menu"].opacity = "0"
        /\ ~MenuHidden <=> dom["menu"].opacity = "1"

-----------------------------------------------------------------------------
(* The form specification: pages with a form, a field and a submit button;   *)
(* the field required or optional, of type text or email.                    *)

\* Values of the field: sequences of characters.
FieldValues == {<<>>, <<" ">>, <<"a", "b", "c">>}

FormPages ==
    {[kinds |-> {"form", "field", "submitButton"}, disabled |-> FALSE,
      attrs |-> [PlainAttributes EXCEPT !.required = r, !.type = t]] :
        r \in BOOLEAN, t \in {"text", "email"}}

ScrollPositions ==
    {0, StickyThreshold, StickyThreshold + 1, ToTopThreshold, ToTopThreshold + 1}

InitForm ==
    /\ InitClock
    /\ NoGeneric
    /\ InitPage(FormPages)
    /\ dom = [k \in AllKinds |-> Unstyled]
    /\ form \in {[NoForm EXCEPT !.value = v] : v \in FieldValues}
    /\ win = [scrollY |-> 0, innerWidth |-> MobileBreakpoint]

NextForm ==
    \/ Handler
    \/ \E k \in {"field", "submitButton"} : Click(k)
    \/ \E key \in {"Enter", "x"} : KeyDown("field", key)
    \/ \E k \in {"field", "submitButton"} : Blur(k)
    \/ \E v \in FieldValues : Input(v)
    \/ Submit
    \/ Scroll(ToTopThreshold + 1)
    \/ Resize(MobileBreakpoint)
    \/ TimerFire
    \/ PageTick

SpecForm == InitForm /\ [][NextForm]_vars

\* C6: validation runs when a field loses focus: after the blur of a required
\* field whose trimmed value is empty, the field has the class 'error' and the
\* message 'This field is required'; after the blur of a field with a
\* non-empty valid value, it has the class 'success'.
C6_BlurValidates ==
    (lastEvent.type = "blur" /\ lastEvent.target = "field") =>
        /\ (page.attrs.required /\ Trim(form.value) = <<>>) =>
              /\ "error" \in dom["field"].classes
              /\ form.messages = <<"This field is required">>
        /\ (page.attrs.type = "text" /\ Trim(form.value) # <<>>) =>
              "success" \in dom["field"].classes

\* C9: on a page with a form that has a required field and a submit button,
\* no listener and no timer callback raises an uncaught error, whatever the
\* sequence of blur, input, submit, click, keydown, scroll, resize and timer
\* events.
C9_NoUncaughtError == page.attrs.required => errors = {}

\* validateForm would return false: the field is required and blank, or is an
\* email field with a value that is no email address.
FieldInvalid ==
    \/ page.attrs.required /\ Trim(form.value) = <<>>
    \/ page.attrs.type = "email" /\ Trim(form.value) # <<>> /\ ~EmailRegexTest(Trim(form.value))

\* C13: when a form is submitted and one of its fields is invalid, the default
\* action of the submit event is prevented: an invalid form is never submitted.
C13_InvalidSubmitPrevented ==
    (lastEvent.type = "submit" /\ FieldInvalid) => lastEvent.prevented

\* C14: the loading state of the submit button is temporary: after any
\* sequence of submit events, a second one arriving before the timer of the
\* first included, once every pending restore timer has fired the button is
\* enabled and its innerHTML is its content before the first submit.
C14_LoadingRestored ==
    (\A t \in timers : t.cb # "sendDone") =>
        /\ ~form.disabled
        /\ form.html = "original"

\* C15: 2000 ms after a submit event on a form with a submit button, the
\* success message 'Form submitted successfully!' is appended to the body
\* (and removed again 3000 ms later).
C15_SuccessMessageShown ==
    (lastEvent.type = "timer" /\ lastEvent.target = "sendDone") => form.success >= 1

-----------------------------------------------------------------------------
(* The validation specification: a form whose field is required or optional, *)
(* of type text, email or tel; the user changes its value, and validateField *)
(* is applied to the field (FormEnhancement.validateField.call(field)).      *)

ValidateValues ==
    {<<>>, <<" ">>, <<"a">>, <<"a", "@", "b", ".", "c">>, <<"1", " ", "2">>, <<"0", "1">>}

ValidatePages ==
    {[kinds |-> {"form", "field", "submitButton"}, disabled |-> FALSE,
      attrs |-> [PlainAttributes EXCEPT !.required = r, !.type = t]] :
        r \in BOOLEAN, t \in {"text", "email", "tel"}}

InitValidate ==
    /\ InitClock
    /\ NoGeneric
    /\ InitPage(ValidatePages)
    /\ dom = [k \in AllKinds |-> Unstyled]
    /\ form \in {[NoForm EXCEPT !.value = v] : v \in ValidateValues}
    /\ win = [scrollY |-> 0, innerWidth |-> MobileBreakpoint]

\* validateField is applied to the field; what it returns, or the TypeError
\* it ends with, is kept in lastEvent.ret.
ValidateFieldCall ==
    /\ pc \in {"done", "failed"}
    /\ DueTimers = {}
    /\ LET W == ValidateField(PageWorld, "field")
       IN  /\ Commit(W)
           /\ lastEvent' = [lastEvent EXCEPT !.type = "call", !.target = "field", !.id = 0,
                                             !.prevented = FALSE, !.ret = W.ret]
    /\ UNCHANGED <<now, page, pc, initLog, elements, listeners, observed, win, debVars>>

NextValidate ==
    \/ Handler
    \/ \E v \in ValidateValues : Input(v)
    \/ ValidateFieldCall
    \/ TimerFire
    \/ PageTick

SpecValidate == InitValidate /\ [][NextValidate]_vars

\* The step before was a call of validateField on the field.
Validated == lastEvent.type = "call" /\ lastEvent.target = "field"

\* C16: validateField applied to a field, for every combination of
\* required/optional, type and value: afterwards the field never has both
\* 'error' and 'success'; it returns false exactly when it left 'error' on
\* the field; a required field with an empty or whitespace-only value yields
\* false; an optional field with an empty value yields true with neither class.
C16_ValidateField ==
    Validated =>
        /\ ~({"error", "success"} \subseteq dom["field"].classes)
        /\ (lastEvent.ret = "false") <=> ("error" \in dom["field"].classes)
        /\ (page.attrs.required /\ Trim(form.value) = <<>>) => lastEvent.ret = "false"
        /\ (~page.attrs.required /\ form.value = <<>>) =>
              /\ lastEvent.ret = "true"
              /\ dom["field"].classes \cap {"error", "success"} = {}

\* C17: error messages track the error state of a field: after any sequence
\* of validateField calls on a field that is the only field of its parent,
\* the parent contains a .field-error element if and only if the field has
\* the class 'error', and never more than one.
C17_MessageTracksError ==
    Validated =>
        /\ (form.messages # <<>>) <=> ("error" \in dom["field"].classes)
        /\ Len(form.messages) <= 1

-----------------------------------------------------------------------------
(* The tab specification: pages with two tab buttons and two tab contents;   *)
(* a button names its content by data-tab, or has none, or names a missing   *)
(* element; the contents carry any classes as served.                        *)

TabPages ==
    {[kinds |-> {"tabButton1", "tabButton2", "tabContent1", "tabContent2"},
      disabled |-> FALSE,
      attrs |-> [PlainAttributes EXCEPT !.tab1 = a, !.tab2 = b]] :
        a \in {"t1", "none"}, b \in {"t2", "missing"}}

TabContents == {"tabContent1", "tabContent2"}

InitTabs ==
    /\ InitClock
    /\ NoGeneric
    /\ InitPage(TabPages)
    /\ \E c \in [TabContents -> SUBSET {"hidden", "active"}] :
          dom = [k \in AllKinds |->
                    IF k \in TabContents THEN [Unstyled EXCEPT !.classes = c[k]] ELSE Unstyled]
    /\ form = NoForm
    /\ win = [scrollY |-> 0, innerWidth |-> MobileBreakpoint]

NextTabs ==
    \/ Handler
    \/ \E k \in elements \cup {"document"} : Click(k)
    \/ \E k \in Focusable, key \in {"Enter", "x"} : KeyDown(k, key)
    \/ TimerFire
    \/ PageTick

SpecTabs == InitTabs /\ [][NextTabs]_vars

Shown == {c \in TabContents : "hidden" \notin dom[c].classes}

\* C7: after switchTab(tabId, clickedTab) every .tab-content other than the
\* element with id tabId + '-content' has class 'hidden' and lacks 'active',
\* and that element, when it exists, lacks 'hidden' and has 'active'; so once
\* a tab has been switched at most one .tab-content is not hidden.
C7_OneTabContent ==
    /\ (/\ lastEvent.type = "click"
        /\ lastEvent.target \in {"tabButton1", "tabButton2"}
        /\ DataTab(lastEvent.target) # "none") =>
          \A c \in TabContents :
              IF c = ContentById(elements, DataTab(lastEvent.target))
              THEN "hidden" \notin dom[c].classes /\ "active" \in dom[c].classes
              ELSE "hidden" \in dom[c].classes /\ "active" \notin dom[c].classes
    /\ "switchTab" \in ran => Cardinality(Shown) <= 1

\* The second tab was clicked after other events, and its content alone is shown.
C7_Witness ==
    /\ lastEvent.type = "click"
    /\ lastEvent.target = "tabButton2"
    /\ lastEvent.n >= 2
    /\ page.attrs.tab2 = "t2"
    /\ Shown = {"tabContent2"}
    /\ "active" \in dom["tabContent2"].classes

-----------------------------------------------------------------------------
(* The scroll specification: pages with or without a navbar and sections,    *)
(* card animations disabled or not, scrolled to positions around the two     *)
(* thresholds.                                                               *)

ScrollPages ==
    {[kinds |-> extra, disabled |-> d, attrs |-> PlainAttributes] :
        extra \in {{}, {"navbar"}, {"navbar", "text", "section", "footer", "image"}},
        d \in BOOLEAN}

InitScroll ==
    /\ InitClock
    /\ NoGeneric
    /\ InitPage(ScrollPages)
    /\ dom = [k \in AllKinds |-> Unstyled]
    /\ form = NoForm
    /\ win \in [scrollY : ScrollPositions, innerWidth : {MobileBreakpoint}]

NextScroll ==
    \/ Handler
    \/ \E y \in ScrollPositions : Scroll(y)
    \/ Click("scrollToTopBtn")
    \/ TimerFire
    \/ PageTick

SpecScroll == InitScroll /\ [][NextScroll]_vars

\* The step is a run of the debounced scroll listener of the scroll-to-top button.
ToTopRan ==
    /\ lastEvent' # lastEvent
    /\ lastEvent'.type = "timer"
    /\ lastEvent'.target = "toTopScroll"

\* C10: each time the debounced scroll listener of the scroll-to-top button
\* runs, the button's opacity becomes '1' if window.pageYOffset > 300 and '0'
\* otherwise (at 300 it is hidden); no other listener or callback changes it.
C10_ToTopVisibility ==
    [][IF ToTopRan
       THEN dom'["scrollToTopBtn"].opacity = (IF win.scrollY > 300 THEN "1" ELSE "0")
       ELSE "scrollToTopBtn" \in elements =>
                dom'["scrollToTopBtn"].opacity = dom["scrollToTopBtn"].opacity]_vars

\* The listener ran at position 300 after the button had been shown: it is hidden.
C10_Witness ==
    /\ lastEvent.type = "timer"
    /\ lastEvent.target = "toTopScroll"
    /\ lastEvent.n >= 2
    /\ win.scrollY = 300
    /\ dom["scrollToTopBtn"].opacity = "0"

\* The debounced listeners registered for the scroll event of window.
ScrollWrappers ==
    {w \in PageWrappers :
        \E i \in DOMAIN listeners :
            listeners[i] = [target |-> "window", type |-> "scroll", fn |-> w]}

\* After a scroll event every wrapper registered for it has exactly one
\* pending timer, the one armed by its own call and due after its own wait.
ScrollArmsEach ==
    (lastEvent'.n # lastEvent.n /\ lastEvent'.type = "scroll") =>
        \A w \in PageWrappers :
            IF w \in ScrollWrappers
            THEN \E t \in timers' :
                    /\ {u \in timers' : u.cb = w} = {t}
                    /\ t.id = timeout'[w]
                    /\ t.due = now + Wait(w)
            ELSE {u \in timers' : u.cb = w} = {}

\* The delivery of the timer of one wrapper removes that timer and no other.
FireLeavesOthers ==
    (lastEvent' # lastEvent /\ lastEvent'.type = "timer") =>
        \E t \in timers : t.id = lastEvent'.id /\ timers' = timers \ {t}

\* C12: debounced handlers of different modules do not interfere: a call to
\* one wrapper never cancels, delays or triggers the pending timer of another
\* wrapper attached to the same event, and the invocation of one wrapper's
\* func leaves the timers of the others pending.
C12_WrappersIndependent == [][ScrollArmsEach /\ FireLeavesOthers]_vars

\* The sticky-navigation listener ran while the timers of the scroll-progress
\* and scroll-to-top wrappers, armed by the same scroll event, were pending.
C12_Witness ==
    /\ lastEvent.type = "timer"
    /\ lastEvent.target = "stickyScroll"
    /\ PendingOf("progressScroll") # {}
    /\ PendingOf("toTopScroll") # {}
    /\ PendingOf("stickyScroll") = {}

\* The step is a run of the debounced scroll listener of the sticky navigation.
StickyRan ==
    /\ lastEvent' # lastEvent
    /\ lastEvent'.type = "timer"
    /\ lastEvent'.target = "stickyScroll"

\* C24: each time the debounced sticky-navigation scroll listener runs, the
\* navbar has class 'shadow-lg' afterwards if and only if the scroll position
\* is strictly greater than 200; at exactly 200 the class is removed and the
\* background style is cleared.
C24_StickyNavigation ==
    [][StickyRan =>
          /\ ("shadow-lg" \in dom'["navbar"].classes) <=> (win.scrollY > 200)
          /\ win.scrollY <= 200 => dom'["navbar"].background = ""]_vars

\* The listener ran at position 200 after an earlier scroll: the navbar has
\* no shadow and no background.
C24_Witness ==
    /\ lastEvent.type = "timer"
    /\ lastEvent.target = "stickyScroll"
    /\ lastEvent.n >= 2
    /\ win.scrollY = 200
    /\ "shadow-lg" \notin dom["navbar"].classes
    /\ dom["navbar"].background = ""

-----------------------------------------------------------------------------
(* The reveal specification: pages with a card, a section, text and an image, *)
(* card animations disabled or not; the page is scrolled, observed elements   *)
(* enter and leave the viewport, the pointer moves over elements, elements    *)
(* are clicked.                                                               *)

RevealPages ==
    {[kinds |-> kinds, disabled |-> d, attrs |-> PlainAttributes] :
        kinds \in {{"card"}, {"card", "text", "section", "footer", "image"}},
        d \in BOOLEAN}

InitReveal ==
    /\ InitClock
    /\ NoGeneric
    /\ InitPage(RevealPages)
    /\ dom = [k \in AllKinds |-> Unstyled]
    /\ form = NoForm
    /\ win = [scrollY |-> 0, innerWidth |-> MobileBreakpoint]

NextReveal ==
    \/ Handler
    \/ Scroll(ToTopThreshold + 1)
    \/ \E e \in observed, b \in BOOLEAN : Intersect(e[1], e[2], b)
    \/ \E k \in elements, type \in {"mouseenter", "mouseleave"} : Mouse(type, k)
    \/ \E k \in elements : Click(k)
    \/ TimerFire
    \/ PageTick

SpecReveal == InitReveal /\ [][NextReveal]_vars

\* The elements matching one of the selectors.
Matching(sels) == {k \in elements : Traits(k) \cap sels # {}}

\* C18: on a page for which Utils.shouldDisableCardAnimations() is true, during
\* and after initialisation no module sets the inline opacity of a card to
\* '0', and no IntersectionObserver is registered on a card.
C18_CardAnimationsDisabled ==
    page.disabled =>
        \A k \in Matching(CardSelectors) :
            /\ dom[k].opacity # "0"
            /\ \A e \in observed : e[2] # k

RevealedOnce ==
    \A k \in elements :
        /\ (/\ lastEvent'.n # lastEvent.n
            /\ lastEvent'.target = k
            /\ \/ lastEvent'.type = "scrollObserver" /\ "animated" \in dom[k].classes
               \/ lastEvent'.type = "textObserver" /\ "text-animated" \in dom[k].classes)
           => dom'[k] = dom[k]
        /\ \A c \in {"animated", "text-animated"} :
              c \in dom[k].classes => c \in dom'[k].classes

\* The opacity of an observed element that is '1' is not set to '0'.
RevealKept ==
    \A e \in observed : dom[e[2]].opacity = "1" => dom'[e[2]].opacity # "0"

\* C20: on a page where animations are enabled, scroll reveal is one-shot and
\* monotone: the scroll observer (the text observer) applies the reveal styles
\* and adds 'animated' ('text-animated') to an element at most once, the class
\* is never removed, and once the inline opacity of an observed element is '1'
\* no callback sets it back to '0'.
C20_RevealOnce == [][~page.disabled => (RevealedOnce /\ RevealKept)]_vars

\* A revealed card entered the viewport again while the pointer was over it:
\* the reveal styles were not applied a second time.
C20_Witness ==
    /\ ~page.disabled
    /\ lastEvent.type = "scrollObserver"
    /\ lastEvent.target = "card"
    /\ lastEvent.n = 3
    /\ "animated" \in dom["card"].classes
    /\ dom["card"].opacity = "1"
    /\ dom["card"].transform = "translateY(-8px) scale(1.02)"

-----------------------------------------------------------------------------
(* Numbers.  The easing works on fractions of the duration; a number is kept *)
(* as a fraction num/den in lowest terms with den > 0.                       *)

Abs(x) == IF x < 0 THEN -x ELSE x

RECURSIVE GCD(_, _)
GCD(a, b) == IF b = 0 THEN a ELSE GCD(b, a % b)

\* The number n/d, d # 0.
Number(n, d) ==
    LET s == IF d < 0 THEN -1 ELSE 1
        g == GCD(Abs(n), Abs(d))
    IN  [num |-> (s * n) \div g, den |-> (s * d) \div g]

Num(n) == [num |-> n, den |-> 1]

Plus(x, y) == Number(x.num * y.den + y.num * x.den, x.den * y.den)
Minus(x, y) == Number(x.num * y.den - y.num * x.den, x.den * y.den)
Times(x, y) == Number(x.num * y.num, x.den * y.den)
\* x / y, y # 0
Over(x, y) == Number(x.num * y.den, x.den * y.num)
LessThan(x, y) == x.num * y.den < y.num * x.den

-----------------------------------------------------------------------------
(* The scroll-to-top animation *)

\* `duration` of the animation, in ms
AnimationDuration == 1000

\* A faulty easing that never decelerates: the cubic of the first half is
\* used for the whole duration.
EaseInCubic(t, b, c, d) ==
    LET t1 == Over(t, Over(d, Num(2)))
    IN  Plus(Times(Times(Times(Over(c, Num(2)), t1), t1), t1), b)

\* easeInOutCubic(t, b, c, d):
\*   t /= d / 2; if (t < 1) return c / 2 * t * t * t + b;
\*   t -= 2; return c / 2 * (t * t * t + 2) + b;
easeInOutCubic(t, b, c, d) ==
    LET t1 == Over(t, Over(d, Num(2)))
        t2 == Minus(t1, Num(2))
    IN  IF LessThan(t1, Num(1))
        THEN Plus(Times(Times(Times(Over(c, Num(2)), t1), t1), t1), b)
        ELSE Plus(Times(Over(c, Num(2)), Plus(Times(Times(t2, t2), t2), Num(2))), b)

\* No animation has been started.  `start` is <<>> while it is null.
NoAnimation ==
    [requested |-> FALSE, start |-> <<>>, time |-> 0, elapsed |-> 0,
     currentScroll |-> Num(0), distance |-> Num(0), frames |-> 0, run |-> Num(0)]

\* The click listener of the scroll-to-top button: the closure of a new
\* animation, and requestAnimationFrame(animation).
ToTopClick(w) ==
    LET currentScroll == w.scrollY
        targetScroll == Num(0)
        distance == Minus(targetScroll, currentScroll)
    IN  [w EXCEPT !.anim = [requested |-> TRUE, start |-> <<>>, time |-> 0, elapsed |-> 0,
                            currentScroll |-> currentScroll, distance |-> distance,
                            frames |-> 0, run |-> Num(0)]]

\* window.scrollTo(0, y): the position is kept within the document.
ScrollTo(w, y) == [w EXCEPT !.scrollY = IF LessThan(y, Num(0)) THEN Num(0) ELSE y]

\* animation(currentTime), the frame callback.
Animation(w, currentTime) ==
    LET a == w.anim
        start == IF a.start = <<>> THEN <<currentTime>> ELSE a.start
        timeElapsed == currentTime - start[1]
        run == easeInOutCubic(Num(timeElapsed), a.currentScroll, a.distance,
                              Num(AnimationDuration))
    IN  ScrollTo([w EXCEPT !.anim = [a EXCEPT !.start = start, !.time = currentTime,
                                              !.elapsed = timeElapsed, !.run = run,
                                              !.frames = @ + 1,
                                              !.requested = timeElapsed < AnimationDuration]],
                 run)

-----------------------------------------------------------------------------
(* The easing specification: the bare page, scrolled to some position; the   *)
(* scroll-to-top button is clicked and the frames of the animation run.      *)

\* Bounds of the arguments the easing is checked for
EaseMaxValue == 3
EaseMaxDuration == 4

EasePages ==
    {[kinds |-> {}, disabled |-> d, attrs |-> PlainAttributes] : d \in BOOLEAN}

\* The time between two frames, or between the click and the first frame.
FrameSteps == {AnimationDuration \div 4, AnimationDuration \div 2}

InitEase ==
    /\ InitClock
    /\ NoGeneric
    /\ InitPage(EasePages)
    /\ dom = [k \in AllKinds |-> Unstyled]
    /\ form = NoForm
    /\ win \in [scrollY : {Num(y) : y \in ScrollPositions}, innerWidth : {MobileBreakpoint},
                anim : {NoAnimation}]

\* A click on the scroll-to-top button while no animation of an earlier click
\* is running: its click listeners run, the animation among them.
ToTopButtonClick ==
    /\ Ready
    /\ ~win.anim.requested
    /\ \E i \in DOMAIN listeners :
          listeners[i] = [target |-> "scrollToTopBtn", type |-> "click", fn |-> "toTopClick"]
    /\ win' = ToTopClick(win)
    /\ LET W == Dispatch([type |-> "click", target |-> "scrollToTopBtn", key |-> ""], PageWorld)
       IN  Commit(W) /\ Occurred("click", "scrollToTopBtn", W)
    /\ UNCHANGED <<now, page, pc, initLog, elements, listeners, observed, debVars>>

\* The browser runs the requested frame, dt after the previous one.
AnimationFrame(dt) ==
    /\ win.anim.requested
    /\ win' = Animation(win, win.anim.time + dt)
    /\ lastEvent' = [lastEvent EXCEPT !.type = "frame", !.target = "window"]
    /\ UNCHANGED <<page, pc, initLog, elements, listeners, observed, dom, form, errors, ran,
                   clockVars, debVars>>

NextEase ==
    \/ Handler
    \/ ToTopButtonClick
    \/ \E dt \in FrameSteps : AnimationFrame(dt)

SpecEase == InitEase /\ [][NextEase]_vars

\* r lies between b and b + c.
Between(r, b, c) ==
    LET lo == IF LessThan(c, Num(0)) THEN Plus(b, c) ELSE b
        hi == IF LessThan(c, Num(0)) THEN b ELSE Plus(b, c)
    IN  ~LessThan(r, lo) /\ ~LessThan(hi, r)

\* The three properties of the easing for the arguments t, b, c, d, d > 0.
Eases(t, b, c, d) ==
    LET r == easeInOutCubic(t, b, c, d)
    IN  /\ ~LessThan(t, Num(0)) /\ ~LessThan(d, t) => Between(r, b, c)
        /\ t = Num(0) => r = b
        /\ t = d => r = Plus(b, c)

\* C11: easeInOutCubic(t, b, c, d) returns b at t = 0 and b + c at t = d, and
\* for 0 <= t <= d its result lies between b and b + c; in the scroll-to-top
\* animation b is the scroll position at the click and c = -b, so the target
\* position is 0.
C11_EaseInOutCubic ==
    /\ \A b \in 0..EaseMaxValue, c \in -EaseMaxValue..EaseMaxValue, d \in 1..EaseMaxDuration :
          \A t \in 0..d : Eases(Num(t), Num(b), Num(c), Num(d))
    /\ win.anim.frames > 0 =>
          /\ Plus(win.anim.currentScroll, win.anim.distance) = Num(0)
          /\ win.anim.run = easeInOutCubic(Num(win.anim.elapsed), win.anim.currentScroll,
                                           win.anim.distance, Num(AnimationDuration))
          /\ Eases(Num(win.anim.elapsed), win.anim.currentScroll, win.anim.distance,
                   Num(AnimationDuration))

\* A frame ran exactly at the end of the duration of an animation that began
\* below the top and passed through an intermediate frame: the position is 0.
C11_Witness ==
    /\ win.anim.frames >= 3
    /\ win.anim.elapsed = AnimationDuration
    /\ LessThan(Num(0), win.anim.currentScroll)
    /\ win.anim.run = Num(0)
    /\ win.scrollY = Num(0)

=============================================================================
